---- MODULE Spec2Model ----
(***************************************************************************)
(* Model of the worldmap loader, WorldMapParser::load_worldmap and         *)
(* WorldMapParser::load_level_information                                  *)
(* (src/src/worldmap/worldmap_parser.cpp).                                 *)
(*                                                                         *)
(* A document is a record: the root tag, the optional `name` and           *)
(* `tileset` keys and the optional `sector` mapping, an ordered list of    *)
(* entries.  The loader is a sequential program; pc is its position and    *)
(* every branch of the key dispatch is one action.  A second run of the    *)
(* loader into a second, fresh scene is used by the relational properties  *)
(* (same document twice, document without its unknown keys, document with  *)
(* its level files repaired).                                              *)
(*                                                                         *)
(* The second part models the transient entities of src/src/gameobjs.cpp   *)
(* (BouncyDistro, BrokenBrick, BouncyBrick, FloatingScore, Trampoline):    *)
(* their init and action functions as operators, and the simulation that   *)
(* adds entities and steps them frame by frame as SpecFrame.               *)
(***************************************************************************)
EXTENDS Integers, Sequences, FiniteSets, TLC

VARIABLES
  docs,        \* docs[r]: the document behind the filename given to run r
  worlds,      \* worlds[i]: the WorldMap scene objects
  run,         \* number of the current call of load_worldmap (1 or 2)
  m_worldmap,  \* the scene the parser is bound to (WorldMapParser::m_worldmap)
  pc,          \* position of the current call inside load_worldmap
  iter,        \* number of sector entries the iterator has consumed
  log,         \* log[r]: the warnings written to log_warning during run r
  errors,      \* errors[r]: the exceptions that reached the caller of run r
  result,      \* result[r]: "none" (not finished), "ok" or "failed"
  objects,     \* objects[id]: the transient entity objects (gameobjs.cpp)
  current,     \* World::current(): the owning collections, lists of ids
  ticks,       \* the game clock read by the timers, in milliseconds
  frame        \* the frame driver: its position, frame ratio and cursor

loader == <<docs, worlds, run, m_worldmap, pc, iter, log, errors, result>>

gameobjs == <<objects, current, ticks, frame>>

vars == <<docs, worlds, run, m_worldmap, pc, iter, log, errors, result,
          objects, current, ticks, frame>>

(***************************************************************************)
(* Bounds and input sets                                                   *)
(***************************************************************************)
\* longest free part of a sector (after the optional standard preamble)
MaxEntries == 2

RootTag == "supertux-level"
DefaultTileset == "images/worldmap.strf"
NoTitle == "<no title>"
NoTileset == ""

MapFiles == {"world1/worldmap.stwm", "worldmap.stwm"}

\* FileSystem::dirname of the two map files
dirname(filename) ==
  IF filename = "worldmap.stwm" THEN "./" ELSE "world1/"

Entry(k, nm, n) == [key |-> k, name |-> nm, n |-> n]

\* the files a `level` entry may name
LevelNames ==
  {"missing.stl", "dir", "notlevel.stl", "broken.stl",
   "full.stl", "untitled.stl", "untimed.stl"}

\* what the virtual file system holds under a level name
LevelFile(name) ==
  [exists  |-> name # "missing.stl",
   is_dir  |-> name = "dir",
   parses  |-> name # "broken.stl",
   root    |-> IF name = "notlevel.stl" THEN "supertux-worldmap" ELSE RootTag,
   hasName |-> name \in {"full.stl", "untimed.stl"},
   title   |-> "Welcome to Antarctica",
   hasTime |-> name \in {"full.stl", "untitled.stl"},
   time    |-> 45]

NoFile ==
  [exists |-> FALSE, is_dir |-> FALSE, parses |-> FALSE, root |-> "",
   hasName |-> FALSE, title |-> "", hasTime |-> FALSE, time |-> 0]

\* the file behind a path: level files live next to the map file, and a
\* path is found under its search-path name only ("./x" is not a name)
PhysFS(filename) ==
  IF \E d \in {"", "world1/"}, n \in LevelNames : filename = d \o n
    THEN LevelFile(CHOOSE n \in LevelNames :
                     \E d \in {"", "world1/"} : filename = d \o n)
    ELSE NoFile

PlainKeys ==
  {"background", "special-tile", "sprite-change", "teleporter", "decal", "name"}

UnknownKey == "particles-snow"

\* tilemap: n = 1 is a solid layer; worldmap-spawnpoint: n is its position;
\* ambient-light: n is the number of colour components of the list read
Entries ==
  {Entry("tilemap", "", s) : s \in {0, 1}}
    \cup {Entry(k, "", 0) : k \in PlainKeys \cup {UnknownKey}}
    \cup {Entry("music", "music/salcon.ogg", 0),
          Entry("init-script", "intro()", 0)}
    \cup {Entry("worldmap-spawnpoint", "main", 1),
          Entry("worldmap-spawnpoint", "main", 2),
          Entry("worldmap-spawnpoint", "other", 3)}
    \cup {Entry("level", f, 0) : f \in LevelNames}
    \cup {Entry("ambient-light", "notalist", 0),
          Entry("ambient-light", "dark", 2),
          Entry("ambient-light", "bright", 3)}

Sectors(n) == UNION {[1..k -> Entries] : k \in 0..n}

\* a solid tile layer and the spawn point the load ends on
Preamble == <<Entry("tilemap", "", 1), Entry("worldmap-spawnpoint", "main", 1)>>

Doc(file, parses, root, hasName, hasTileset, hasSector, sector) ==
  [file |-> file, parses |-> parses, root |-> root, hasName |-> hasName,
   name |-> "Icy Island", hasTileset |-> hasTileset,
   tileset |-> "images/ice_world.strf", hasSector |-> hasSector,
   sector |-> sector]

\* where the preamble stands: nowhere, in front of the free part, behind it
Placements ==
  {<<<< >>, << >>>>, <<Preamble, << >>>>, <<<< >>, Preamble>>}

\* well-formed header, every sector of the bound, alone, behind the
\* preamble or in front of it
SectorDocs ==
  {Doc("world1/worldmap.stwm", TRUE, RootTag, TRUE, FALSE, TRUE,
       pq[1] \o s \o pq[2]) :
     pq \in Placements, s \in Sectors(MaxEntries)}

\* every header, with the preamble and at most one more entry behind it
HeaderSectors == {<< >>, Preamble} \cup {Preamble \o <<e>> : e \in Entries}

HeaderDocs ==
  {Doc(f, TRUE, RootTag, hn, ht, TRUE, s) :
     f \in MapFiles, hn \in BOOLEAN, ht \in BOOLEAN, s \in HeaderSectors}

\* documents that do not parse, carry another root tag or have no sector
BrokenDocs ==
  {Doc(f, p, r, TRUE, ht, hs, s) :
     f \in MapFiles, p \in BOOLEAN, r \in {RootTag, "supertux-tiles"},
     ht \in BOOLEAN, hs \in BOOLEAN,
     s \in {<< >>, Preamble}}

Documents ==
  {d \in SectorDocs \cup HeaderDocs \cup BrokenDocs :
     d.hasSector \/ d.sector = << >>}

NoDoc == Doc("", FALSE, "", FALSE, FALSE, FALSE, << >>)

(***************************************************************************)
(* The scene (WorldMap) and its collaborators                              *)
(***************************************************************************)
\* a scene as constructed; preset records the tileset it was given then
FreshWorld(tileset) ==
  [preset |-> tileset, m_map_filename |-> "", m_levels_path |-> "", m_name |-> "",
   m_tileset |-> tileset, m_music |-> "", m_init_script |-> "",
   m_ambient_light |-> "white",
   game_objects |-> << >>, m_spawn_points |-> << >>, m_levels |-> << >>,
   m_special_tiles |-> << >>, m_sprite_changes |-> << >>,
   m_teleporters |-> << >>,
   updated |-> FALSE, tux_pos |-> 0]

\* an object built from the sector entry e at iterator position i; i is
\* the object's identity
Object(e, i, tileset) ==
  [kind |-> e.key, id |-> i, name |-> e.name, n |-> e.n,
   tileset |-> tileset, title |-> "", target_time |-> 0]

add_object(w, o) == [w EXCEPT !.game_objects = Append(@, o)]

update_game_objects(w) == [w EXCEPT !.updated = TRUE]

IsSolidTilemap(o) == o.kind = "tilemap" /\ o.n = 1

get_solid_tilemaps(w) == SelectSeq(w.game_objects, IsSolidTilemap)

HasSpawnpoint(w, name) ==
  \E k \in 1..Len(w.m_spawn_points) : w.m_spawn_points[k].name = name

FirstSpawnpoint(w, name) ==
  w.m_spawn_points[CHOOSE k \in 1..Len(w.m_spawn_points) :
     /\ w.m_spawn_points[k].name = name
     /\ \A j \in 1..(k - 1) : w.m_spawn_points[j].name # name]

\* the avatar is put on the spawn point of that name; none is an error
move_to_spawnpoint(w, name) ==
  IF HasSpawnpoint(w, name)
    THEN [ok |-> TRUE,
          world |-> [w EXCEPT !.tux_pos = FirstSpawnpoint(w, name).n]]
    ELSE [ok |-> FALSE, world |-> w]

Warning(text, arg, at) == [text |-> text, arg |-> arg, at |-> at]

(***************************************************************************)
(* load_level_information                                                  *)
(***************************************************************************)
LevelFilename(levels_path, name) ==
  IF levels_path = "./" THEN name ELSE levels_path \o name

\* lines 182-185: an exception of the sub-load is logged, not passed on
CatchLevel_rethrow(level, filename, what) ==
  [level |-> level, log |-> << >>, thrown |-> TRUE]

CatchLevel(level, filename, what) ==
  [level |-> level,
   log |-> <<Warning("Problem when reading level information", filename, level.id)>>,
   thrown |-> FALSE]

\* the LevelTile after the sub-load, the warnings the sub-load logged and
\* whether an exception left it
load_level_information_nameFirst(w, level) ==
  LET reset    == [level EXCEPT !.title = NoTitle, !.target_time = 0]
      filename == LevelFilename(w.m_levels_path, level.name)
      file     == PhysFS(filename)
  IN  IF ~file.exists
        THEN [level |-> reset,
              log |-> <<Warning("does not exist. Skipping.", filename, level.id)>>,
              thrown |-> FALSE]
      ELSE IF file.is_dir
        THEN [level |-> reset,
              log |-> <<Warning("is a directory. Skipping.", filename, level.id)>>,
              thrown |-> FALSE]
      ELSE IF ~file.parses
        THEN CatchLevel(reset, filename, "parse error")
      ELSE IF file.root # RootTag \/ ~file.hasName
        THEN [level |-> reset, log |-> << >>, thrown |-> FALSE]
      ELSE [level |-> [reset EXCEPT
                         !.title = file.title,
                         !.target_time = IF file.hasTime THEN file.time ELSE @],
            log |-> << >>, thrown |-> FALSE]

load_level_information(w, level) ==
  LET reset    == [level EXCEPT !.title = NoTitle, !.target_time = 0]
      filename == LevelFilename(w.m_levels_path, level.name)
      file     == PhysFS(filename)
  IN  IF ~file.exists
        THEN [level |-> reset,
              log |-> <<Warning("does not exist. Skipping.", filename, level.id)>>,
              thrown |-> FALSE]
      ELSE IF file.is_dir
        THEN [level |-> reset,
              log |-> <<Warning("is a directory. Skipping.", filename, level.id)>>,
              thrown |-> FALSE]
      ELSE IF ~file.parses
        THEN CatchLevel(reset, filename, "parse error")
      ELSE IF file.root # RootTag
        THEN [level |-> reset, log |-> << >>, thrown |-> FALSE]
      ELSE [level |-> [reset EXCEPT
                         !.title = IF file.hasName THEN file.title ELSE @,
                         !.target_time = IF file.hasTime THEN file.time ELSE @],
            log |-> << >>, thrown |-> FALSE]

(***************************************************************************)
(* load_worldmap                                                           *)
(***************************************************************************)
\* lines 44-47: the parser keeps a reference to the scene it is given
WorldMapParser_shared(worldmap) == 1

WorldMapParser(worldmap) == worldmap

World == worlds[m_worldmap]
Document == docs[run]
Sector == Document.sector

SetWorld(w) == worlds' = [worlds EXCEPT ![m_worldmap] = w]
Warn(ws) == log' = [log EXCEPT ![run] = @ \o ws]

\* lines 140-145, the catch block: the one exception the caller sees
Wrapped_bare(filename, what) == <<what>>

Wrapped(filename, what) ==
  <<"Problem when parsing worldmap '", filename, "': ", what>>

Catch_swallowed(what) ==
  /\ errors' = errors
  /\ result' = [result EXCEPT ![run] = "ok"]
  /\ pc' = "done"

Catch(what) ==
  /\ errors' = [errors EXCEPT ![run] = Append(@, Wrapped(World.m_map_filename, what))]
  /\ result' = [result EXCEPT ![run] = "failed"]
  /\ pc' = "failed"

Throw(what) == Catch(what)

\* lines 52-53: record the file name and the directory of the level files
Begin ==
  /\ pc = "begin"
  /\ SetWorld([World EXCEPT !.m_map_filename = Document.file,
                            !.m_levels_path = dirname(Document.file)])
  /\ pc' = "open"
  /\ UNCHANGED <<gameobjs, docs, run, m_worldmap, iter, log, errors, result>>

\* lines 56-61: open and parse the document, check the root tag
RootOk(d) == d.root = RootTag

Open ==
  /\ pc = "open"
  /\ IF ~Document.parses
       THEN Throw("parse error")
     ELSE IF ~RootOk(Document)
       THEN Throw("file isn't a supertux-level file.")
     ELSE /\ pc' = "header"
          /\ UNCHANGED <<errors, result>>
  /\ UNCHANGED <<gameobjs, docs, worlds, run, m_worldmap, iter, log>>

\* lines 65-78: name and tileset
TilesetAfter_lastWins(w, d) ==
  IF d.hasTileset THEN d.tileset
  ELSE IF w.m_tileset = NoTileset THEN DefaultTileset
  ELSE w.m_tileset

TilesetAfter(w, d) ==
  IF d.hasTileset /\ w.m_tileset = NoTileset THEN d.tileset
  ELSE IF w.m_tileset = NoTileset THEN DefaultTileset
  ELSE w.m_tileset

Header ==
  /\ pc = "header"
  /\ SetWorld([World EXCEPT
                 !.m_name = IF Document.hasName THEN Document.name ELSE @,
                 !.m_tileset = TilesetAfter(World, Document)])
  /\ Warn(IF Document.hasTileset /\ World.m_tileset # NoTileset
            THEN <<Warning("multiple tilesets specified in level_", "", 0)>>
            ELSE << >>)
  /\ pc' = "sector"
  /\ UNCHANGED <<gameobjs, docs, run, m_worldmap, iter, errors, result>>

\* lines 80-84: the sector must be there
HasSector_unchecked(d) == TRUE

HasSector(d) == d.hasSector

GetSector ==
  /\ pc = "sector"
  /\ IF ~HasSector(Document)
       THEN /\ Throw("No sector specified in worldmap file.")
            /\ UNCHANGED iter
       ELSE /\ pc' = "iter"
            /\ iter' = 0
            /\ UNCHANGED <<errors, result>>
  /\ UNCHANGED <<gameobjs, docs, worlds, run, m_worldmap, log>>

\* line 85: iter.next() moved the iterator onto an entry with this key
At(key) ==
  /\ pc = "iter"
  /\ iter < Len(Sector)
  /\ Sector[iter + 1].key = key

Current == Sector[iter + 1]

Step ==
  /\ iter' = iter + 1
  /\ UNCHANGED <<gameobjs, docs, run, m_worldmap, pc, errors, result>>

\* lines 86-87
TileMapEntry(w, e, i) == add_object(w, Object(e, i, w.m_tileset))

SectorTilemap ==
  /\ At("tilemap")
  /\ SetWorld(TileMapEntry(World, Current, iter + 1))
  /\ Step /\ UNCHANGED log

\* lines 88-89
BackgroundEntry(w, e, i) == add_object(w, Object(e, i, ""))

SectorBackground ==
  /\ At("background")
  /\ SetWorld(BackgroundEntry(World, Current, iter + 1))
  /\ Step /\ UNCHANGED log

\* lines 90-91
SectorMusic ==
  /\ At("music")
  /\ SetWorld([World EXCEPT !.m_music = Current.name])
  /\ Step /\ UNCHANGED log

\* lines 92-93
SectorInitScript ==
  /\ At("init-script")
  /\ SetWorld([World EXCEPT !.m_init_script = Current.name])
  /\ Step /\ UNCHANGED log

\* lines 94-96
SpawnPointEntry_asObject(w, e, i) == add_object(w, Object(e, i, ""))

SpawnPointEntry(w, e, i) ==
  [w EXCEPT !.m_spawn_points = Append(@, Object(e, i, ""))]

SectorSpawnpoint ==
  /\ At("worldmap-spawnpoint")
  /\ SetWorld(SpawnPointEntry(World, Current, iter + 1))
  /\ Step /\ UNCHANGED log

\* lines 97-101
LevelEntry_indexOnly(w, level) == [w EXCEPT !.m_levels = Append(@, level)]

LevelEntry(w, level) ==
  add_object([w EXCEPT !.m_levels = Append(@, level)], level)

SectorLevel ==
  /\ At("level")
  /\ LET info == load_level_information(World, Object(Current, iter + 1, ""))
     IN  /\ Warn(info.log)
         /\ IF info.thrown
              THEN /\ Throw("level information")
                   /\ UNCHANGED <<gameobjs, docs, worlds, run, m_worldmap, iter>>
              ELSE /\ SetWorld(LevelEntry(World, info.level))
                   /\ Step

\* lines 102-105
SpecialTileEntry_front(w, e, i) ==
  add_object([w EXCEPT !.m_special_tiles = <<Object(e, i, "")>> \o @],
             Object(e, i, ""))

SpecialTileEntry(w, e, i) ==
  add_object([w EXCEPT !.m_special_tiles = Append(@, Object(e, i, ""))],
             Object(e, i, ""))

SectorSpecialTile ==
  /\ At("special-tile")
  /\ SetWorld(SpecialTileEntry(World, Current, iter + 1))
  /\ Step /\ UNCHANGED log

\* lines 106-109
SpriteChangeEntry(w, e, i) ==
  add_object([w EXCEPT !.m_sprite_changes = Append(@, Object(e, i, ""))],
             Object(e, i, ""))

SectorSpriteChange ==
  /\ At("sprite-change")
  /\ SetWorld(SpriteChangeEntry(World, Current, iter + 1))
  /\ Step /\ UNCHANGED log

\* lines 110-113
TeleporterEntry(w, e, i) ==
  add_object([w EXCEPT !.m_teleporters = Append(@, Object(e, i, ""))],
             Object(e, i, ""))

SectorTeleporter ==
  /\ At("teleporter")
  /\ SetWorld(TeleporterEntry(World, Current, iter + 1))
  /\ Step /\ UNCHANGED log

\* lines 114-116
DecalEntry(w, e, i) == add_object(w, Object(e, i, ""))

SectorDecal ==
  /\ At("decal")
  /\ SetWorld(DecalEntry(World, Current, iter + 1))
  /\ Step /\ UNCHANGED log

\* lines 117-124: the colour is read from the sector mapping by key, which
\* finds the first entry of that key
GetByKey(sector, key) ==
  sector[CHOOSE k \in 1..Len(sector) :
           /\ sector[k].key = key
           /\ \A j \in 1..(k - 1) : sector[j].key # key]

AmbientLightEntry_anySize(w, sector) ==
  LET read == GetByKey(sector, "ambient-light")
  IN  IF read.name = "notalist"
        THEN [world |-> w, warned |-> TRUE]
        ELSE [world |-> [w EXCEPT !.m_ambient_light = read.name],
              warned |-> FALSE]

AmbientLightEntry(w, sector) ==
  LET read     == GetByKey(sector, "ambient-light")
      hasColor == read.name # "notalist"
      size     == read.n
  IN  IF size < 3 \/ ~hasColor
        THEN [world |-> w, warned |-> TRUE]
        ELSE [world |-> [w EXCEPT !.m_ambient_light = read.name],
              warned |-> FALSE]

SectorAmbientLight ==
  /\ At("ambient-light")
  /\ LET r == AmbientLightEntry(World, Sector)
     IN  /\ SetWorld(r.world)
         /\ Warn(IF r.warned
                   THEN <<Warning("(ambient-light) requires a color as argument",
                                  "", iter + 1)>>
                   ELSE << >>)
  /\ Step

\* lines 125-126
SectorName ==
  /\ At("name")
  /\ Step /\ UNCHANGED <<worlds, log>>

\* lines 127-129
KnownKeys ==
  {"tilemap", "background", "music", "init-script", "worldmap-spawnpoint",
   "level", "special-tile", "sprite-change", "teleporter", "decal",
   "ambient-light", "name"}

UnknownEntry_asObject(w, e, i) ==
  [world |-> add_object(w, Object(e, i, "")),
   log |-> <<Warning("Unknown token in worldmap", e.key, i)>>]

UnknownEntry(w, e, i) ==
  [world |-> w, log |-> <<Warning("Unknown token in worldmap", e.key, i)>>]

SectorUnknown ==
  /\ pc = "iter"
  /\ iter < Len(Sector)
  /\ Current.key \notin KnownKeys
  /\ LET r == UnknownEntry(World, Current, iter + 1)
     IN  /\ SetWorld(r.world)
         /\ Warn(r.log)
  /\ Step

\* line 85: iter.next() is false
SectorEnd ==
  /\ pc = "iter"
  /\ iter = Len(Sector)
  /\ pc' = "update"
  /\ UNCHANGED <<gameobjs, docs, worlds, run, m_worldmap, iter, log, errors, result>>

\* line 133
UpdateGameObjects ==
  /\ pc = "update"
  /\ SetWorld(update_game_objects(World))
  /\ pc' = "check"
  /\ UNCHANGED <<gameobjs, docs, run, m_worldmap, iter, log, errors, result>>

\* lines 135-136
SolidCheck_anyTilemap(w) ==
  \E k \in 1..Len(w.game_objects) : w.game_objects[k].kind = "tilemap"

SolidCheck(w) == Len(get_solid_tilemaps(w)) # 0

CheckSolid ==
  /\ pc = "check"
  /\ IF ~SolidCheck(World)
       THEN Throw("No solid tilemap specified")
       ELSE /\ pc' = "spawn"
            /\ UNCHANGED <<errors, result>>
  /\ UNCHANGED <<gameobjs, docs, worlds, run, m_worldmap, iter, log>>

\* line 138
MoveToSpawnpoint ==
  /\ pc = "spawn"
  /\ LET r == move_to_spawnpoint(World, "main")
     IN  IF r.ok
           THEN /\ SetWorld(r.world)
                /\ pc' = "done"
                /\ result' = [result EXCEPT ![run] = "ok"]
                /\ UNCHANGED errors
           ELSE /\ Throw("Spawnpoint 'main' not found.")
                /\ UNCHANGED worlds
  /\ UNCHANGED <<gameobjs, docs, run, m_worldmap, iter, log>>

(***************************************************************************)
(* Transient entities (src/src/gameobjs.cpp)                               *)
(*                                                                         *)
(* An entity object is a record; `this` is its index in objects.  The      *)
(* owning collections of World::current() are lists of such indices.       *)
(* Positions, velocities and offsets are counted in tenths of a pixel, so  *)
(* that the 0.1 of BouncyDistro::action and BOUNCY_BRICK_SPEED are whole   *)
(* numbers; frame ratios are whole numbers and the arithmetic is exact.    *)
(* The fields x0, y0, moved, ones and low are history: the position given  *)
(* to init, the sum of the frame ratios of the action calls, the number of *)
(* action calls as long as all of them had frame ratio 1 (-1 afterwards),  *)
(* and whether the offset was below 0 at the end of an action call.        *)
(***************************************************************************)
MaxObjects == 3

MaxMoved == 22

MaxTicks == 1000

MaxNominal == 1

MaxSpawnTick == 0

FrameRatios == {0, 1, 10}

FrameTimes == {0, 100, 500}

BOUNCY_BRICK_MAX_OFFSET == 80

BOUNCY_BRICK_SPEED == 9

Pointers == 1..MaxObjects

NoObject ==
  [kind |-> "none", x |-> 0, y |-> 0, xm |-> 0, ym |-> 0,
   width |-> 0, height |-> 0, offset |-> 0, offset_m |-> 0, shape |-> "",
   tile |-> "", time |-> 0, period |-> 0, value |-> 0,
   vy |-> 0, gravity |-> FALSE,
   x0 |-> 0, y0 |-> 0, moved |-> 0, ones |-> 0, low |-> FALSE]

New(kind, x, y) == [NoObject EXCEPT !.kind = kind, !.x0 = x, !.y0 = y]

NoObjects == [id \in Pointers |-> NoObject]

EmptyWorld ==
  [bouncy_distros |-> << >>, broken_bricks |-> << >>,
   bouncy_bricks |-> << >>, floating_scores |-> << >>,
   trampolines |-> << >>]

\* the history of an action call with this frame ratio
Called(o, frame_ratio) ==
  [o EXCEPT !.moved = @ + frame_ratio,
            !.ones = IF @ >= 0 /\ frame_ratio = 1 THEN @ + 1 ELSE -1]

\* std::find(begin, end, this): the first position of this, or end
end(list) == Len(list) + 1

find_front(list, this) == IF list = << >> THEN end(list) ELSE 1

find(list, this) ==
  IF \E k \in 1..Len(list) : list[k] = this
    THEN CHOOSE k \in 1..Len(list) :
           list[k] = this /\ \A j \in 1..(k - 1) : list[j] # this
    ELSE end(list)

\* std::vector::erase(i)
erase_swap(list, i) ==
  [k \in 1..(Len(list) - 1) |-> IF k = i THEN list[Len(list)] ELSE list[k]]

erase(list, i) ==
  [k \in 1..(Len(list) - 1) |-> IF k < i THEN list[k] ELSE list[k + 1]]

\* Timer: start(period) takes the clock, check() is true while it runs
Timer_start(o, period, now) == [o EXCEPT !.time = now, !.period = period]

Timer_check(o, now) == now < o.time + o.period

\* BouncyDistro::init, lines 30-36
BouncyDistro_init(o, x, y) == [o EXCEPT !.x = x, !.y = y, !.ym = -20]

\* BouncyDistro::action, lines 38-54
BouncyDistro_keep(ym) == ym > 0

BouncyDistro_done(ym) == ym >= 0

BouncyDistro_action(objs, cur, this, frame_ratio, now) ==
  LET o == objs[this]
      o1 == [o EXCEPT !.y = o.y + o.ym * frame_ratio,
                      !.ym = o.ym + 1 * frame_ratio]
      i == find(cur.bouncy_distros, this)
  IN  [objects |-> [objs EXCEPT ![this] = Called(o1, frame_ratio)],
       current |-> IF BouncyDistro_done(o1.ym)
                        /\ i # end(cur.bouncy_distros)
                     THEN [cur EXCEPT !.bouncy_distros = erase(@, i)]
                     ELSE cur]

\* BrokenBrick::init, lines 64-75
BrokenBrick_init_long(o, tile_, x, y, xm, ym, now) ==
  Timer_start([o EXCEPT !.tile = tile_, !.x = x, !.y = y,
                        !.xm = xm, !.ym = ym], 500, now)

BrokenBrick_init(o, tile_, x, y, xm, ym, now) ==
  Timer_start([o EXCEPT !.tile = tile_, !.x = x, !.y = y,
                        !.xm = xm, !.ym = ym], 200, now)

\* BrokenBrick::action, lines 77-92
BrokenBrick_action(objs, cur, this, frame_ratio, now) ==
  LET o == objs[this]
      o1 == [o EXCEPT !.x = o.x + o.xm * frame_ratio,
                      !.y = o.y + o.ym * frame_ratio]
      i == find(cur.broken_bricks, this)
  IN  [objects |-> [objs EXCEPT ![this] = Called(o1, frame_ratio)],
       current |-> IF ~Timer_check(o1, now) /\ i # end(cur.broken_bricks)
                     THEN [cur EXCEPT !.broken_bricks = erase(@, i)]
                     ELSE cur]

\* BouncyBrick::init, lines 112-120
gettileid(x, y) == "brick"

BouncyBrick_init(o, x, y) ==
  [o EXCEPT !.x = x, !.y = y, !.offset = 0,
            !.offset_m = -BOUNCY_BRICK_SPEED, !.shape = gettileid(x, y)]

\* BouncyBrick::action, lines 122-142
StopBouncing(o) == o.offset >= 0

BouncyBrick_action(objs, cur, this, frame_ratio, now) ==
  LET o == objs[this]
      offset == o.offset + o.offset_m * frame_ratio
      o1 == [o EXCEPT !.offset = offset,
                      !.offset_m = IF offset < -BOUNCY_BRICK_MAX_OFFSET
                                     THEN BOUNCY_BRICK_SPEED ELSE @]
      i == find(cur.bouncy_bricks, this)
  IN  [objects |-> [objs EXCEPT ![this] =
                      [Called(o1, frame_ratio) EXCEPT
                         !.low = @ \/ offset < 0]],
       current |-> IF StopBouncing(o1) /\ i # end(cur.bouncy_bricks)
                     THEN [cur EXCEPT !.bouncy_bricks = erase(@, i)]
                     ELSE cur]

\* FloatingScore::init, lines 181-189
FloatingScore_init(o, x, y, s, now) ==
  [Timer_start([o EXCEPT !.x = x, !.y = y - 160], 1000, now)
     EXCEPT !.value = s]

\* FloatingScore::action, lines 191-205
FloatingScore_action(objs, cur, this, frame_ratio, now) ==
  LET o == objs[this]
      o1 == [o EXCEPT !.y = o.y - 20 * frame_ratio]
      i == find(cur.floating_scores, this)
  IN  [objects |-> [objs EXCEPT ![this] = Called(o1, frame_ratio)],
       current |-> IF ~Timer_check(o1, now)
                        /\ i # end(cur.floating_scores)
                     THEN [cur EXCEPT !.floating_scores = erase(@, i)]
                     ELSE cur]

\* Trampoline::init, lines 230-238; the Physic member starts with gravity on
Trampoline_init(o, x, y) ==
  [o EXCEPT !.x = x, !.y = y, !.width = 320, !.height = 320,
            !.gravity = TRUE]

\* Physic::apply: move by the velocity, then let gravity change it
Gravity == 40

Physic_apply(o, frame_ratio) ==
  [o EXCEPT !.y = o.y + o.vy * frame_ratio,
            !.vy = IF o.gravity THEN o.vy + Gravity * frame_ratio ELSE @]

\* issolid: the level has solid ground from this height on
Ground == 960

issolid(x, y) == y >= Ground

\* Trampoline::action, lines 240-261
Trampoline_action(objs, cur, this, frame_ratio, now) ==
  LET o == Physic_apply(objs[this], frame_ratio)
      o1 == IF issolid(o.x + o.width \div 2, o.y + o.height)
              THEN [o EXCEPT !.y = ((o.y + o.height) \div 320) * 320
                                     - o.height,
                             !.gravity = FALSE, !.vy = 0]
              ELSE [o EXCEPT !.gravity = TRUE]
  IN  [objects |-> [objs EXCEPT ![this] = o1], current |-> cur]

\* the frame driver between two frames
Idle ==
  [pc |-> "idle", ratio |-> 0, i |-> 0, list |-> << >>, active |-> {},
   stepped |-> << >>]

Init ==
  /\ \E d \in Documents : docs = [r \in {1, 2} |-> IF r = 1 THEN d ELSE NoDoc]
  /\ \E t \in {NoTileset, "images/preset.strf"} :
       worlds = [i \in {1, 2} |-> FreshWorld(t)]
  /\ run = 1
  /\ m_worldmap = WorldMapParser(1)
  /\ pc = "begin"
  /\ iter = 0
  /\ log = [r \in {1, 2} |-> << >>]
  /\ errors = [r \in {1, 2} |-> << >>]
  /\ result = [r \in {1, 2} |-> "none"]
  /\ objects = NoObjects
  /\ current = EmptyWorld
  /\ ticks = 0
  /\ frame = Idle

Next ==
  \/ Begin
  \/ Open
  \/ Header
  \/ GetSector
  \/ SectorTilemap
  \/ SectorBackground
  \/ SectorMusic
  \/ SectorInitScript
  \/ SectorSpawnpoint
  \/ SectorLevel
  \/ SectorSpecialTile
  \/ SectorSpriteChange
  \/ SectorTeleporter
  \/ SectorDecal
  \/ SectorAmbientLight
  \/ SectorName
  \/ SectorUnknown
  \/ SectorEnd
  \/ UpdateGameObjects
  \/ CheckSolid
  \/ MoveToSpawnpoint

Spec == Init /\ [][Next]_vars

Finished == pc \in {"done", "failed"}

(***************************************************************************)
(* A second load, into the second scene                                    *)
(***************************************************************************)
\* the caller constructs a parser on the other scene and loads document d
LoadAgain(d) ==
  /\ run = 1
  /\ Finished
  /\ docs' = [docs EXCEPT ![2] = d]
  /\ run' = 2
  /\ m_worldmap' = WorldMapParser(2)
  /\ pc' = "begin"
  /\ iter' = 0
  /\ UNCHANGED <<gameobjs, worlds, log, errors, result>>

\* the same document once more
LoadSame == LoadAgain(docs[1])

NextTwice == Next \/ LoadSame

SpecTwice == Init /\ [][NextTwice]_vars

\* the document without its unrecognized sector entries
IsKnown(e) == e.key \in KnownKeys

Strip(d) == [d EXCEPT !.sector = SelectSeq(@, IsKnown)]

LoadStripped == LoadAgain(Strip(docs[1]))

NextStrip == Next \/ LoadStripped

SpecStrip == Init /\ [][NextStrip]_vars

\* the document with every level entry naming a complete level file
RepairEntry(e) == IF e.key = "level" THEN [e EXCEPT !.name = "full.stl"] ELSE e

Repair(d) ==
  [d EXCEPT !.sector = [k \in 1..Len(@) |-> RepairEntry(@[k])]]

LoadRepaired == LoadAgain(Repair(docs[1]))

NextRepair == Next \/ LoadRepaired

SpecRepair == Init /\ [][NextRepair]_vars

(***************************************************************************)
(* The simulation: gameplay events add entities, the frame driver steps    *)
(* the entities of every owning collection once per frame                  *)
(***************************************************************************)
Collections ==
  <<"bouncy_distros", "broken_bricks", "bouncy_bricks", "floating_scores",
    "trampolines">>

KindOf(c) ==
  CASE c = "bouncy_distros" -> "BouncyDistro"
    [] c = "broken_bricks" -> "BrokenBrick"
    [] c = "bouncy_bricks" -> "BouncyBrick"
    [] c = "floating_scores" -> "FloatingScore"
    [] c = "trampolines" -> "Trampoline"

Members(list) == {list[k] : k \in 1..Len(list)}

\* the entities that are in their owning collection
Active(cur) ==
  UNION {Members(cur[Collections[k]]) : k \in 1..Len(Collections)}

Allocated == {id \in Pointers : objects[id].kind # "none"}

Places == {<<320, 320>>}

Velocities == {<<10, -40>>}

Scores == {100}

\* World::add_*: construct the object, init it, push_back on its collection;
\* gameplay events are explored up to the clock value MaxSpawnTick
Add(c, o) ==
  /\ frame.pc = "idle"
  /\ ticks <= MaxSpawnTick
  /\ Cardinality(Allocated) < MaxObjects
  /\ LET this == Cardinality(Allocated) + 1
     IN  /\ objects' = [objects EXCEPT ![this] = o]
         /\ current' = [current EXCEPT ![c] = Append(@, this)]
  /\ UNCHANGED <<loader, ticks, frame>>

add_bouncy_distro ==
  \E p \in Places :
    Add("bouncy_distros",
        BouncyDistro_init(New("BouncyDistro", p[1], p[2]), p[1], p[2]))

add_broken_brick ==
  \E p \in Places, v \in Velocities :
    Add("broken_bricks",
        BrokenBrick_init(New("BrokenBrick", p[1], p[2]), "brick",
                         p[1], p[2], v[1], v[2], ticks))

add_bouncy_brick ==
  \E p \in Places :
    Add("bouncy_bricks",
        BouncyBrick_init(New("BouncyBrick", p[1], p[2]), p[1], p[2]))

add_score ==
  \E p \in Places, sc \in Scores :
    Add("floating_scores",
        FloatingScore_init(New("FloatingScore", p[1], p[2] - 160),
                           p[1], p[2], sc, ticks))

add_trampoline ==
  \E p \in Places :
    Add("trampolines",
        Trampoline_init(New("Trampoline", p[1], p[2]), p[1], p[2]))

\* the action of the entity's class
Action(kind, objs, cur, this, frame_ratio, now) ==
  CASE kind = "BouncyDistro" ->
         BouncyDistro_action(objs, cur, this, frame_ratio, now)
    [] kind = "BrokenBrick" ->
         BrokenBrick_action(objs, cur, this, frame_ratio, now)
    [] kind = "BouncyBrick" ->
         BouncyBrick_action(objs, cur, this, frame_ratio, now)
    [] kind = "FloatingScore" ->
         FloatingScore_action(objs, cur, this, frame_ratio, now)
    [] kind = "Trampoline" ->
         Trampoline_action(objs, cur, this, frame_ratio, now)

\* the list the driver walks: the collection as it was when the walk began
Iterated_live(f, live) == live

Iterated(f, live) == f.list

Walk(c) ==
  [frame EXCEPT !.pc = c, !.i = 1, !.list = current[c]]

\* the collections after the k-th one that have entities to step
Later(k) ==
  {j \in (k + 1)..Len(Collections) : current[Collections[j]] # << >>}

First(S) == CHOOSE j \in S : \A l \in S : j <= l

\* fine-grained frames (ratio 1 or 100 ms) are explored for at most
\* MaxNominal entities, once gameplay has stopped adding entities
Explored(frame_ratio, dt) ==
  (frame_ratio = 1 \/ dt = 100) =>
    Cardinality(Allocated) <= MaxNominal /\ ticks + dt > MaxSpawnTick

\* a frame begins: the clock has advanced, the frame ratio is fixed, and the
\* driver turns to the first collection that has entities
BeginFrame ==
  /\ frame.pc = "idle"
  /\ \E frame_ratio \in FrameRatios, dt \in FrameTimes :
       /\ Explored(frame_ratio, dt)
       /\ ticks + dt <= MaxTicks
       /\ \A id \in Active(current) :
            objects[id].moved + frame_ratio <= MaxMoved
       /\ ticks' = ticks + dt
       /\ frame' = IF Later(0) = {} THEN Idle
                   ELSE [Walk(Collections[First(Later(0))]) EXCEPT
                           !.ratio = frame_ratio,
                           !.active = Active(current)]
  /\ UNCHANGED <<loader, objects, current>>

\* the driver calls action on the entity under its cursor
Drive(c) ==
  /\ frame.pc = c
  /\ frame.i <= Len(Iterated(frame, current[c]))
  /\ LET this == Iterated(frame, current[c])[frame.i]
         after == Action(KindOf(c), objects, current, this, frame.ratio,
                         ticks)
     IN  /\ objects' = after.objects
         /\ current' = after.current
         /\ frame' = [frame EXCEPT !.i = @ + 1,
                                   !.stepped = Append(@, this)]
  /\ UNCHANGED <<loader, ticks>>

DriveBouncyDistros == Drive("bouncy_distros")

DriveBrokenBricks == Drive("broken_bricks")

DriveBouncyBricks == Drive("bouncy_bricks")

DriveFloatingScores == Drive("floating_scores")

DriveTrampolines == Drive("trampolines")

Position(c) == CHOOSE k \in 1..Len(Collections) : Collections[k] = c

WalkOver ==
  /\ frame.pc # "idle"
  /\ frame.i > Len(Iterated(frame, current[frame.pc]))

\* the walk of one collection is over: on to the next one that has entities
NextCollection ==
  /\ WalkOver
  /\ Later(Position(frame.pc)) # {}
  /\ frame' = Walk(Collections[First(Later(Position(frame.pc)))])
  /\ UNCHANGED <<loader, objects, current, ticks>>

\* the walk of the last collection is over: the frame is over
EndFrame ==
  /\ WalkOver
  /\ Later(Position(frame.pc)) = {}
  /\ frame' = Idle
  /\ UNCHANGED <<loader, objects, current, ticks>>

\* some other caller steps an entity that has removed itself already
CallRemoved ==
  /\ frame.pc = "idle"
  /\ \E this \in Allocated \ Active(current), frame_ratio \in FrameRatios :
       /\ frame_ratio # 1
       /\ objects[this].moved + frame_ratio <= MaxMoved
       /\ LET after == Action(objects[this].kind, objects, current, this,
                              frame_ratio, ticks)
          IN  /\ objects' = after.objects
              /\ current' = after.current
  /\ UNCHANGED <<loader, ticks, frame>>

\* the worldmap loader is not running while the simulation runs
InitFrame ==
  /\ docs = [r \in {1, 2} |-> NoDoc]
  /\ worlds = [i \in {1, 2} |-> FreshWorld(NoTileset)]
  /\ run = 1
  /\ m_worldmap = WorldMapParser(1)
  /\ pc = "done"
  /\ iter = 0
  /\ log = [r \in {1, 2} |-> << >>]
  /\ errors = [r \in {1, 2} |-> << >>]
  /\ result = [r \in {1, 2} |-> "ok"]
  /\ objects = NoObjects
  /\ current = EmptyWorld
  /\ ticks = 0
  /\ frame = Idle

NextFrame ==
  \/ add_bouncy_distro
  \/ add_broken_brick
  \/ add_bouncy_brick
  \/ add_score
  \/ add_trampoline
  \/ BeginFrame
  \/ DriveBouncyDistros
  \/ DriveBrokenBricks
  \/ DriveBouncyBricks
  \/ DriveFloatingScores
  \/ DriveTrampolines
  \/ NextCollection
  \/ EndFrame
  \/ CallRemoved

SpecFrame == InitFrame /\ [][NextFrame]_vars

(***************************************************************************)
(* Properties                                                              *)
(***************************************************************************)
WellFormed(d) == d.parses /\ d.root = RootTag /\ d.hasSector

HasSolidEntry(d) ==
  \E k \in 1..Len(d.sector) : d.sector[k].key = "tilemap" /\ d.sector[k].n = 1

HasMainEntry(d) ==
  \E k \in 1..Len(d.sector) :
    d.sector[k].key = "worldmap-spawnpoint" /\ d.sector[k].name = "main"

NothingLoaded(w) ==
  /\ w.game_objects = << >>
  /\ w.m_spawn_points = << >>
  /\ w.m_levels = << >>
  /\ w.m_special_tiles = << >>
  /\ w.m_sprite_changes = << >>
  /\ w.m_teleporters = << >>
  /\ w.tux_pos = 0

\* a call that has not returned can take its next step
Progress == Finished \/ ENABLED Next

Failure(what) ==
  /\ pc = "failed"
  /\ result[run] = "failed"
  /\ errors[run] = <<Wrapped(Document.file, what)>>

\* C1: a document whose root mapping has no `sector` makes load_worldmap
\* fail with the missing-sector error; no sector entry is dispatched, the
\* owned-object list and the five index collections stay as they were and
\* the avatar is not moved.
C1_MissingSector ==
  (Document.parses /\ Document.root = RootTag /\ ~Document.hasSector) =>
    /\ pc \in {"begin", "open", "header", "sector", "failed"}
    /\ pc = "failed" => Failure("No sector specified in worldmap file.")
    /\ iter = 0
    /\ NothingLoaded(World)
    /\ Progress

C1_Witness ==
  /\ Document.parses /\ Document.root = RootTag /\ ~Document.hasSector
  /\ Failure("No sector specified in worldmap file.")
  /\ World.m_tileset # NoTileset

\* C2: a document without a solid tile layer makes load_worldmap fail, also
\* when root tag, sector and spawn point "main" are there; the solid-layer
\* check runs after every sector entry is consumed and after the post-load
\* update hook, and before the avatar is moved, so on this failure the
\* avatar has not been moved.
C2_NoSolidLayer ==
  /\ (WellFormed(Document) /\ ~HasSolidEntry(Document)) =>
       /\ pc \notin {"spawn", "done"}
       /\ pc = "failed" => Failure("No solid tilemap specified")
       /\ World.tux_pos = 0
       /\ pc = "check" => ENABLED CheckSolid
  /\ pc \in {"check", "spawn", "done"} =>
       World.updated /\ iter = Len(Sector)
  /\ (pc = "failed" /\ errors[run] = <<Wrapped(Document.file, "No solid tilemap specified")>>) =>
       World.updated /\ iter = Len(Sector) /\ World.tux_pos = 0
  /\ pc \in {"begin", "open", "header", "sector", "iter", "update", "check"} =>
       World.tux_pos = 0

C2_Witness ==
  /\ WellFormed(Document)
  /\ HasMainEntry(Document)
  /\ ~HasSolidEntry(Document)
  /\ \E k \in 1..Len(World.game_objects) : World.game_objects[k].kind = "tilemap"
  /\ Failure("No solid tilemap specified")
  /\ HasSpawnpoint(World, "main")
  /\ World.updated

\* C3: a valid document with a solid tile layer and a spawn point named
\* "main" loads without error, and on return the avatar is at the position
\* of a spawn point named "main".
C3_LoadSucceeds ==
  (WellFormed(Document) /\ HasSolidEntry(Document) /\ HasMainEntry(Document)) =>
    /\ pc # "failed"
    /\ errors[run] = << >>
    /\ Progress
    /\ pc = "done" =>
         /\ result[run] = "ok"
         /\ \E k \in 1..Len(Sector) :
              /\ Sector[k].key = "worldmap-spawnpoint"
              /\ Sector[k].name = "main"
              /\ World.tux_pos = Sector[k].n

C3_Witness ==
  /\ pc = "done"
  /\ result[run] = "ok"
  /\ HasSpawnpoint(World, "other")
  /\ World.tux_pos = 1

\* C4: a document with the right root tag, a sector and a solid tile layer
\* but no spawn point named "main" does not load successfully: the missing
\* spawn point reaches the caller as a load failure.
C4_MissingMainFails ==
  (WellFormed(Document) /\ HasSolidEntry(Document) /\ ~HasMainEntry(Document)) =>
    /\ pc # "done"
    /\ result[run] # "ok"
    /\ pc = "failed" => Failure("Spawnpoint 'main' not found.")
    /\ World.tux_pos = 0
    /\ pc = "spawn" => ENABLED MoveToSpawnpoint

C4_Witness ==
  /\ WellFormed(Document)
  /\ HasSolidEntry(Document)
  /\ HasSpawnpoint(World, "other")
  /\ Failure("Spawnpoint 'main' not found.")

WarningsAt(r, k) == {j \in 1..Len(log[r]) : log[r][j].at = k}

HasId(s, k) == \E j \in 1..Len(s) : s[j].id = k

\* C5: a level entry whose file is missing, is a directory, has another
\* root tag or does not parse never makes the load fail: the LevelTile is
\* built for every level entry consumed, the load ends as it ends with all
\* level files valid, and for a missing file the title is "<no title>",
\* the target time 0 and one warning is logged for the entry.
C5_LevelFilesNeverFail ==
  /\ \A k \in 1..Len(World.m_levels) :
       Sector[World.m_levels[k].id].name = "missing.stl" =>
         /\ World.m_levels[k].title = NoTitle
         /\ World.m_levels[k].target_time = 0
         /\ Cardinality(WarningsAt(run, World.m_levels[k].id)) = 1
  /\ pc \in {"iter", "update", "check", "spawn", "done"} =>
       \A k \in 1..iter : Sector[k].key = "level" => HasId(World.m_levels, k)
  /\ (run = 2 /\ Finished) =>
       /\ result[2] = result[1]
       /\ errors[2] = errors[1]

C5_Witness ==
  /\ run = 2
  /\ pc = "done"
  /\ result[1] = "ok"
  /\ \E k \in 1..Len(worlds[1].m_levels) :
       /\ worlds[1].m_levels[k].name = "missing.stl"
       /\ worlds[1].m_levels[k].title = NoTitle
       /\ worlds[2].m_levels[k].title = "Welcome to Antarctica"
       /\ Cardinality(WarningsAt(1, worlds[1].m_levels[k].id)) = 1

\* the position an entry has once the unrecognized entries are taken out
NewId(sector, k) == k - Cardinality({j \in 1..k : ~IsKnown(sector[j])})

RenumberSeq(s, sector) ==
  [k \in 1..Len(s) |-> [s[k] EXCEPT !.id = NewId(sector, @)]]

Renumber(w, sector) ==
  [w EXCEPT !.game_objects = RenumberSeq(@, sector),
            !.m_spawn_points = RenumberSeq(@, sector),
            !.m_levels = RenumberSeq(@, sector),
            !.m_special_tiles = RenumberSeq(@, sector),
            !.m_sprite_changes = RenumberSeq(@, sector),
            !.m_teleporters = RenumberSeq(@, sector)]

NotAboutUnknown(wn) == wn.text # "Unknown token in worldmap"

RenumberLog(l, sector) ==
  [k \in 1..Len(l) |-> [l[k] EXCEPT !.at = NewId(sector, @)]]

AllLists(w) ==
  <<w.game_objects, w.m_spawn_points, w.m_levels, w.m_special_tiles,
    w.m_sprite_changes, w.m_teleporters>>

\* C6: an unrecognized sector key adds nothing to the owned-object list or
\* to an index collection and logs exactly one warning; the load ends as
\* the load of the document without these entries ends, with the same
\* scene objects in the same order and the same other warnings.
C6_UnknownKeysIgnored ==
  /\ pc \in {"iter", "update", "check", "spawn", "done"} =>
       \A k \in 1..iter : ~IsKnown(Sector[k]) =>
         /\ \A n \in 1..6 : ~HasId(AllLists(World)[n], k)
         /\ Cardinality(WarningsAt(run, k)) = 1
  /\ (run = 2 /\ Finished) =>
       /\ result[1] = result[2]
       /\ errors[1] = errors[2]
       /\ Renumber(worlds[1], docs[1].sector) = worlds[2]
       /\ RenumberLog(SelectSeq(log[1], NotAboutUnknown), docs[1].sector) = log[2]
       /\ Len(log[1]) = Len(log[2]) + Len(docs[1].sector) - Len(docs[2].sector)

C6_Witness ==
  /\ run = 2
  /\ pc = "done"
  /\ result[1] = "ok"
  /\ Len(docs[2].sector) < Len(docs[1].sector)
  /\ \E k \in 1..Len(worlds[1].game_objects) :
       worlds[1].game_objects[k].id > worlds[2].game_objects[k].id

InnerMessages ==
  {"parse error", "file isn't a supertux-level file.",
   "No sector specified in worldmap file.", "No solid tilemap specified",
   "Spawnpoint 'main' not found."}

\* C7: every failure of load_worldmap reaches the caller as exactly one
\* error whose message holds the file name given and the underlying
\* message; a document with another root tag fails before name, tileset or
\* a sector entry is read.
C7_UniformLoadError ==
  /\ (pc = "failed") = (result[run] = "failed")
  /\ pc # "failed" => errors[run] = << >>
  /\ pc = "failed" =>
       /\ Len(errors[run]) = 1
       /\ Len(errors[run][1]) = 4
       /\ errors[run][1][1] = "Problem when parsing worldmap '"
       /\ errors[run][1][2] = Document.file
       /\ errors[run][1][3] = "': "
       /\ errors[run][1][4] \in InnerMessages
  /\ ~Document.parses =>
       /\ pc \in {"begin", "open", "failed"}
       /\ Progress
  /\ (Document.parses /\ Document.root # RootTag) =>
       /\ pc \in {"begin", "open", "failed"}
       /\ pc = "failed" => errors[run][1][4] = "file isn't a supertux-level file."
       /\ World.m_name = ""
       /\ World.m_tileset = World.preset
       /\ iter = 0
       /\ NothingLoaded(World)
       /\ Progress

C7_Witness ==
  /\ pc = "failed"
  /\ Document.root # RootTag
  /\ Document.hasName /\ Document.hasTileset /\ Len(Sector) > 0
  /\ World.preset = NoTileset
  /\ errors[run] = <<<<"Problem when parsing worldmap '", "worldmap.stwm", "': ",
                       "file isn't a supertux-level file.">>>>

ObjectKeys ==
  {"tilemap", "background", "level", "special-tile", "sprite-change",
   "teleporter", "decal"}

IndexKeys ==
  {"worldmap-spawnpoint", "level", "special-tile", "sprite-change", "teleporter"}

Index(w, key) ==
  CASE key = "worldmap-spawnpoint" -> w.m_spawn_points
    [] key = "level" -> w.m_levels
    [] key = "special-tile" -> w.m_special_tiles
    [] key = "sprite-change" -> w.m_sprite_changes
    [] key = "teleporter" -> w.m_teleporters

\* the same object (identity k) is in both sequences
Shared(s, t, k) ==
  \E i \in 1..Len(s), j \in 1..Len(t) : s[i].id = k /\ s[i] = t[j]

\* C8 as stated: after a successful load every object built from a sector
\* entry is in the owned-object list, and every spawn point, level, special
\* tile, sprite change and teleporter is in the owned-object list and in
\* its index collection.
C8_Original ==
  pc = "done" =>
    \A k \in 1..Len(Sector) :
      /\ Sector[k].key \in ObjectKeys \cup IndexKeys =>
           HasId(World.game_objects, k)
      /\ Sector[k].key \in IndexKeys =>
           Shared(Index(World, Sector[k].key), World.game_objects, k)

\* C8, amended: after a successful load every object built from a sector
\* entry other than a spawn point is in the owned-object list; every level,
\* special tile, sprite change and teleporter is in the owned-object list
\* and in its index collection; a spawn point is in the spawn-point
\* collection only.
C8_OwnedAndIndexed ==
  pc = "done" =>
    \A k \in 1..Len(Sector) :
      /\ Sector[k].key \in ObjectKeys => HasId(World.game_objects, k)
      /\ Sector[k].key \in IndexKeys \ {"worldmap-spawnpoint"} =>
           Shared(Index(World, Sector[k].key), World.game_objects, k)
      /\ Sector[k].key = "worldmap-spawnpoint" =>
           /\ HasId(World.m_spawn_points, k)
           /\ ~HasId(World.game_objects, k)

C8_Witness ==
  /\ pc = "done"
  /\ Len(World.m_levels) = 1
  /\ Len(World.m_teleporters) = 1
  /\ Len(World.m_spawn_points) = 1
  /\ Len(World.game_objects) = 3

Increasing(s) == \A i, j \in 1..Len(s) : i < j => s[i].id < s[j].id

Ids(s) == {s[k].id : k \in 1..Len(s)}

Positions(sector, n, keys) == {k \in 1..n : sector[k].key \in keys}

IsKind(o, key) == o.kind = key

OfLevel(o) == IsKind(o, "level")
OfSpecialTile(o) == IsKind(o, "special-tile")
OfSpriteChange(o) == IsKind(o, "sprite-change")
OfTeleporter(o) == IsKind(o, "teleporter")

\* C9: the owned-object list holds the objects in document order, and each
\* index collection holds its entries in the order of the document, which
\* for levels, special tiles, sprite changes and teleporters is their
\* order in the owned-object list.
C9_DocumentOrder ==
  pc \in {"iter", "update", "check", "spawn", "done"} =>
    /\ Increasing(World.game_objects)
    /\ Ids(World.game_objects) = Positions(Sector, iter, ObjectKeys)
    /\ \A key \in IndexKeys :
         /\ Increasing(Index(World, key))
         /\ Ids(Index(World, key)) = Positions(Sector, iter, {key})
    /\ SelectSeq(World.game_objects, OfLevel) = World.m_levels
    /\ SelectSeq(World.game_objects, OfSpecialTile) = World.m_special_tiles
    /\ SelectSeq(World.game_objects, OfSpriteChange) = World.m_sprite_changes
    /\ SelectSeq(World.game_objects, OfTeleporter) = World.m_teleporters

C9_Witness ==
  /\ pc = "done"
  /\ Len(World.m_special_tiles) = 2
  /\ World.m_special_tiles[1].id = 1
  /\ World.m_special_tiles[2].id = 2
  /\ World.game_objects[3].kind = "tilemap"
  /\ Len(World.m_spawn_points) = 1

OfKind(kind) == {id \in Allocated : objects[id].kind = kind}

Present(id) == id \in Active(current)

\* the driver has just returned from the action of an entity of collection c
JustStepped(c) == frame.pc = c /\ frame.i > 1

Last == frame.list[frame.i - 1]

\* milliseconds since the init of the entity
Elapsed(o) == ticks - o.time

MovedByVelocity(o) == o.x = o.x0 + o.xm * o.moved /\ o.y = o.y0 + o.ym * o.moved

\* C11: a BrokenBrick whose action has just run 200 ms or more after its
\* init is no longer in broken_bricks; one whose action has just run less
\* than 200 ms after its init is still there; and as long as it is there its
\* position is the position given to init plus the velocity times the sum of
\* the frame ratios, on both axes.
C11_BrokenBrickTimer ==
  /\ JustStepped("broken_bricks") =>
       (Present(Last) <=> Elapsed(objects[Last]) < 200)
  /\ \A id \in OfKind("BrokenBrick") :
       Present(id) => MovedByVelocity(objects[id])

C11_Witness ==
  /\ JustStepped("broken_bricks")
  /\ ~Present(Last)
  /\ Elapsed(objects[Last]) = 200
  /\ objects[Last].moved = 2
  /\ objects[Last].x = objects[Last].x0 + 20
  /\ objects[Last].y = objects[Last].y0 - 80

\* C12: after init and any number of action calls, the offset of a
\* BouncyBrick is never below -BOUNCY_BRICK_MAX_OFFSET.
C12_Original ==
  \A id \in OfKind("BouncyBrick") :
    -BOUNCY_BRICK_MAX_OFFSET <= objects[id].offset

\* C13: a BouncyBrick that has removed itself in the action call that has
\* just returned has offset exactly 0 and had an offset below 0 at the end
\* of an earlier call; so the first call after init never removes it.
C13_Original ==
  (JustStepped("bouncy_bricks") /\ ~Present(Last)) =>
    (objects[Last].offset = 0 /\ objects[Last].low)

\* the terminal condition of the entity's class, after an action call
Terminal(o, now) ==
  CASE o.kind = "BouncyDistro" -> o.ym >= 0
    [] o.kind = "BrokenBrick" -> now - o.time >= 200
    [] o.kind = "BouncyBrick" -> o.offset >= 0
    [] o.kind = "FloatingScore" -> now - o.time >= 1000
    [] OTHER -> FALSE

Without(list, this) == SelectSeq(list, LAMBDA id : id # this)

\* this step is the driver's call of action on the entity under its cursor
Driven == frame.pc # "idle" /\ frame'.pc = frame.pc /\ frame'.i = frame.i + 1

Subject == frame.list[frame.i]

\* this step is a call of action by some other caller
Called_Outside ==
  frame.pc = "idle" /\ frame'.pc = "idle" /\ Allocated' = Allocated

C14_Step ==
  /\ (Driven /\ Present(Subject)) =>
       current' =
         IF Terminal(objects'[Subject], ticks')
           THEN [current EXCEPT ![frame.pc] = Without(@, Subject)]
           ELSE current
  /\ \A id \in Allocated : ~Present(id) => ~(id \in Active(current'))
  /\ Called_Outside => current' = current

\* C14: an action call on an entity of a self-terminating class that ends
\* with the terminal condition true erases the entity's own entry from its
\* owning collection and no other entry; a call that ends with the terminal
\* condition false erases nothing; no step puts an entity that is not in
\* its collection back into it; and a call on an entity that is not in its
\* collection leaves all collections as they are.
C14_RemovedOnce == [][C14_Step]_vars

C14_Witness ==
  /\ objects[1].kind = "BouncyBrick"
  /\ ~Present(1)
  /\ objects[1].offset = -90
  /\ current.bouncy_bricks = <<2, 3>>
  /\ objects[3].offset = 0
  /\ objects[2].offset < 0
  /\ JustStepped("bouncy_bricks")
  /\ frame.list = <<2, 3>>
  /\ frame.i = 2

Others(c) == {d \in DOMAIN current : d # c}

C15_Step ==
  /\ Driven =>
       /\ \A d \in Others(frame.pc) : current'[d] = current[d]
       /\ \/ current'[frame.pc] = current[frame.pc]
          \/ current'[frame.pc] = Without(current[frame.pc], Subject)
       /\ frame.pc = "trampolines" => current' = current
  /\ Called_Outside => current' = current

\* C15: an action call changes at most the owning collection of the
\* entity's own kind, and only by deleting the entity's own entry: the other
\* entries stay, in the same order, and the collections of the other kinds
\* are unchanged; the action of a Trampoline changes no collection.
C15_OwnEntryOnly == [][C15_Step]_vars

C15_Witness ==
  /\ objects[2].kind = "BouncyDistro"
  /\ ~Present(2)
  /\ current.bouncy_distros = <<3>>
  /\ current.trampolines = <<1>>
  /\ JustStepped("trampolines")
  /\ Last = 1
  /\ objects[1].y > objects[1].y0

C16_State ==
  \A id \in OfKind("BouncyDistro") :
    LET o == objects[id]
    IN  /\ o.ym = -20 + o.moved
        /\ Present(id) <=> o.ym < 0
        /\ (o.ones >= 0 /\ o.ones < 20) => Present(id)
        /\ o.ones = 20 => ~Present(id)
        /\ o.moved >= 20 => ~Present(id)

C16_Step ==
  (Driven /\ frame.pc = "bouncy_distros") =>
    LET o == objects[Subject]
        after == objects'[Subject]
    IN  /\ after.y = o.y + o.ym * frame.ratio
        /\ after.ym = o.ym + frame.ratio
        /\ after.y <= o.y
        /\ Present(Subject)

\* C16: a BouncyDistro starts with vertical velocity -2 (-20 tenths); each
\* action call moves y by the old velocity times the frame ratio and then
\* adds 0.1 times the frame ratio to the velocity; the distro is in
\* bouncy_distros exactly as long as its velocity is below 0, so it is
\* removed by the call that brings the sum of the frame ratios to 20 (the
\* 20th call when all have ratio 1), and y never increases in a call on a
\* distro that is in the collection.
C16_BouncyDistro == []C16_State /\ [][C16_Step]_vars

C16_Witness ==
  /\ JustStepped("bouncy_distros")
  /\ objects[Last].ones = 20
  /\ objects[Last].ym = 0
  /\ objects[Last].y = objects[Last].y0 - 210
  /\ ~Present(Last)

\* the entity whose action the driver calls in this step
Stepped == frame'.stepped[Len(frame'.stepped)]

C17_Step ==
  /\ Driven =>
       /\ Present(Stepped)
       /\ Stepped \in frame.active
       /\ Stepped \notin Members(frame.stepped)
  /\ (frame.pc # "idle" /\ frame'.pc = "idle") =>
       Members(frame.stepped) = frame.active

\* C17: in a frame the driver calls action once on every entity that was
\* in its owning collection when the frame began, also when entities erase
\* themselves from the collection it is walking: every call is on an entity
\* that is still in its collection and has not been stepped in this frame,
\* and when the frame ends every such entity has been stepped.
C17_EveryEntityOnce == [][C17_Step]_vars

C17_Witness ==
  /\ frame.pc = "bouncy_distros"
  /\ frame.list = <<1, 2, 3>>
  /\ frame.stepped = <<1, 2>>
  /\ frame.active = {1, 2, 3}
  /\ ~Present(1)
  /\ ~Present(2)
  /\ current.bouncy_distros = <<3>>

(***************************************************************************)
(* Properties of the loader: tileset, level information, ambient light     *)
(***************************************************************************)
PastHeader == pc \in {"sector", "iter", "update", "check", "spawn", "done"}

TilesetWarnings ==
  {j \in 1..Len(log[run]) :
     log[run][j].text = "multiple tilesets specified in level_"}

\* C18: once load_worldmap is past the `tileset` key, a scene that had a
\* tileset before the load still has that one, and a document that names a
\* tileset has caused one warning and nothing else; a scene that had none
\* has the document's tileset if the document names one and the built-in
\* "images/worldmap.strf" otherwise; so the scene has a tileset whenever
\* the load reaches the sector.
C18_TilesetPrecedence ==
  PastHeader =>
    /\ World.m_tileset # NoTileset
    /\ World.preset # NoTileset =>
         /\ World.m_tileset = World.preset
         /\ Cardinality(TilesetWarnings) =
              (IF Document.hasTileset THEN 1 ELSE 0)
    /\ World.preset = NoTileset =>
         /\ World.m_tileset =
              (IF Document.hasTileset THEN Document.tileset
               ELSE DefaultTileset)
         /\ TilesetWarnings = {}

C18_Witness ==
  /\ pc = "iter"
  /\ World.preset = "images/preset.strf"
  /\ Document.hasTileset
  /\ Document.tileset # World.preset
  /\ World.m_tileset = World.preset
  /\ Cardinality(TilesetWarnings) = 1

\* the level file a LevelTile of the current scene names
FileOf(level) == PhysFS(LevelFilename(World.m_levels_path, level.name))

Readable(file) ==
  file.exists /\ ~file.is_dir /\ file.parses /\ file.root = RootTag

InformationLoaded(level) ==
  LET file == FileOf(level)
  IN  /\ level.title =
           (IF Readable(file) /\ file.hasName THEN file.title ELSE NoTitle)
      /\ level.target_time =
           (IF Readable(file) /\ file.hasTime THEN file.time ELSE 0)
      /\ (file.exists /\ ~file.is_dir /\ file.parses /\ file.root # RootTag)
           => WarningsAt(run, level.id) = {}

\* C19: every LevelTile that is in the level index or in the owned-object
\* list carries the result of load_level_information: title "<no title>"
\* and target time 0 unless the level file exists, is no directory, parses
\* and has the root tag supertux-level, and then each of the two fields is
\* the file's if the file has it and the default if not, independently of
\* the other; a file with another root tag leaves both defaults and logs
\* no warning.
C19_LevelInformation ==
  /\ \A k \in 1..Len(World.m_levels) : InformationLoaded(World.m_levels[k])
  /\ \A k \in 1..Len(World.game_objects) :
       World.game_objects[k].kind = "level" =>
         /\ InformationLoaded(World.game_objects[k])
         /\ HasId(World.m_levels, World.game_objects[k].id)

C19_Witness ==
  /\ Len(World.m_levels) = 2
  /\ World.m_levels[1].name = "untitled.stl"
  /\ World.m_levels[1].title = NoTitle
  /\ World.m_levels[1].target_time = 45
  /\ World.m_levels[2].name = "notlevel.stl"
  /\ World.m_levels[2].title = NoTitle
  /\ World.m_levels[2].target_time = 0
  /\ log[run] = << >>
  /\ Len(World.game_objects) = 2

\* the entry that a read of the sector mapping by the key ambient-light finds
ReadColor ==
  Sector[CHOOSE k \in 1..Len(Sector) :
           /\ Sector[k].key = "ambient-light"
           /\ \A j \in 1..(k - 1) : Sector[j].key # "ambient-light"]

IsColor(e) == e.name # "notalist" /\ e.n >= 3

AmbientLightWarning ==
  Warning("(ambient-light) requires a color as argument", "", iter + 1)

C20_Step ==
  (At("ambient-light") /\ iter' = iter + 1) =>
    /\ pc' = "iter"
    /\ errors' = errors
    /\ IF IsColor(ReadColor)
         THEN /\ worlds'[m_worldmap].m_ambient_light = ReadColor.name
              /\ log' = log
         ELSE /\ worlds' = worlds
              /\ log' = [log EXCEPT ![run] = Append(@, AmbientLightWarning)]

\* C20: the step that consumes an ambient-light entry reads the colour from
\* the sector mapping by key, which is the first ambient-light entry and not
\* necessarily the one under the iterator; if that is no list or has fewer
\* than 3 components the step logs one warning and leaves the scene and its
\* ambient light as they were, otherwise it sets the ambient light to the
\* colour read; either way the iteration goes on.
C20_AmbientLight == [][C20_Step]_vars

C20_Witness ==
  /\ pc = "iter"
  /\ iter = 2
  /\ Sector[1] = Entry("ambient-light", "dark", 2)
  /\ Sector[2] = Entry("ambient-light", "bright", 3)
  /\ World.m_ambient_light = "white"
  /\ Len(log[run]) = 2

====
